---- MODULE Spec2Model ----
(***************************************************************************)
(* A model of src/app.py (TCMB exchange-rate fetcher):                     *)
(*   - parse_tcmb_xml, fetch_range and the job thread App._run_job,        *)
(*     launched by App._start_job (specification Spec);                    *)
(*   - apply_frequency as a function of a date-indexed table               *)
(*     (specification SpecFreq);                                           *)
(*   - the frequency checkboxes and their buttons (specification SpecUi).  *)
(* Calendar dates are day ordinals: the number of days since 2024-01-01.   *)
(* A float is <<x>>, NaN/None is <<>>.                                     *)
(***************************************************************************)
EXTENDS Integers, Sequences, FiniteSets, TLC

VARIABLES total_days, progress_txt, pb_value, after_queue, threads,
          df_in, freq_in, df_out, var_freq, settings

vars == <<total_days, progress_txt, pb_value, after_queue, threads,
          df_in, freq_in, df_out, var_freq, settings>>

appVars == <<total_days, progress_txt, pb_value, after_queue, threads>>
freqVars == <<df_in, freq_in, df_out>>
uiVars == <<var_freq, settings>>

\* ------------------------------------------------------------------ bounds
\* Dates the date pickers can hold: ordinals 0 .. MaxDate.
MaxDate == 1
\* Thread slots: the number of _run_job threads that can be alive at once.
MaxThreads == 2
\* Dates of a single fetch_range run: ordinals 0 .. MaxSpan.
MaxSpan == 2
\* Rows of a table given to apply_frequency.
MaxRows == 3
\* Currency entries of one XML document.
MaxEntries == 2
\* Callbacks pending in Tk's after queue.
MaxAfter == 1

NaN == <<>>
Float(x) == <<x>>

\* ------------------------------------------------------- parse_tcmb_xml
NoAttr == "<no Kod attribute>"
NoText == "<no element>"

\* (cur.attrib.get("Kod") or "").strip().upper() on the attribute texts used.
KodTexts == {NoAttr, " usd ", "EUR"}
NormCode(kod) ==
    CASE kod = NoAttr -> ""
      [] kod = " usd " -> "USD"
      [] kod = "EUR" -> "EUR"

\* _num: strip, decimal comma to point, float(); None on no text or failure.
\* Floats are held in hundredths.
Num(text) ==
    CASE text = NoText -> NaN
      [] text = "abc" -> NaN
      [] text = "34,56" -> Float(3456)
      [] text = " 34.56 " -> Float(3456)

FIELDS == <<"ForexBuying", "ForexSelling", "BanknoteBuying", "BanknoteSelling">>

\* The four child texts of a Currency entry, in the order of FIELDS.
FieldTexts == { <<"34,56", " 34.56 ", "abc", NoText>> }

Entries == [Kod : KodTexts, texts : FieldTexts]

Vals(entry) == [k \in 1..4 |-> Num(entry.texts[k])]

\* A response body: well-formed XML with its Currency entries, or not XML.
Contents ==
    {[wellformed |-> FALSE, entries |-> <<>>]} \cup
    {[wellformed |-> TRUE, entries |-> es] :
        es \in UNION {[1..n -> Entries] : n \in 0..MaxEntries}}

Body(entries) == [wellformed |-> TRUE, entries |-> entries]

\* ET.fromstring raises ParseError on malformed markup.
ParseRaises(content) == ~content.wellformed

PositionOf(out, code) ==
    IF \E k \in 1..Len(out) : out[k].code = code
    THEN CHOOSE k \in 1..Len(out) : out[k].code = code
    ELSE 0

\* out[code] = {...}: a dict keeps the position of a key's first insertion
\* and the value of its last.
DictSet(out, code, vals) ==
    IF PositionOf(out, code) = 0
    THEN Append(out, [code |-> code, vals |-> vals])
    ELSE [out EXCEPT ![PositionOf(out, code)].vals = vals]

RECURSIVE ParseEntries(_, _, _)
ParseEntries(entries, wanted_codes, out) ==
    IF entries = <<>> THEN out
    ELSE LET cur == Head(entries)
             code == NormCode(cur.Kod)
         IN IF code = "" THEN ParseEntries(Tail(entries), wanted_codes, out)
            ELSE IF wanted_codes # {} /\ code \notin wanted_codes
                 THEN ParseEntries(Tail(entries), wanted_codes, out)
                 ELSE ParseEntries(Tail(entries), wanted_codes,
                                   DictSet(out, code, Vals(cur)))

\* The dict parse_tcmb_xml returns, as the sequence of its items.
ParseTcmbXml(content, wanted_codes) ==
    ParseEntries(content.entries, wanted_codes, <<>>)

\* ---------------------------------------------------------- fetch_range
StatusCodes == {200, 404}

\* What requests.get does for one day: raises, or returns a response.
Responses ==
    {[raised |-> TRUE, status |-> 0, content |-> [wellformed |-> FALSE, entries |-> <<>>]]} \cup
    {[raised |-> FALSE, status |-> s, content |-> c] : s \in StatusCodes, c \in Contents}

\* The codes of a document's entries that are wanted: non-blank once trimmed
\* and upper-cased, and in the wanted set unless that set is empty.
Matching(content, wanted) ==
    {c \in {NormCode(content.entries[k].Kod) : k \in 1..Len(content.entries)} :
        c # "" /\ (wanted = {} \/ c \in wanted)}

\* What the day's request met: whether requests.get raised, the status code,
\* whether the body is XML, and the wanted codes in it.
Met(resp, wanted) ==
    [raised |-> resp.raised, status |-> resp.status,
     wellformed |-> resp.content.wellformed, matching |-> Matching(resp.content, wanted)]

\* wanted = set(c.upper() for c in currency_codes) if currency_codes else set()
Wanted(currency_codes) == {currency_codes[k] : k \in 1..Len(currency_codes)}

\* days = (end - start).days + 1
Days(start, end) == (end - start) + 1

\* DayOk without the "if parsed:" test of line 63.
DayOkAnyDocument(resp, wanted) ==
    /\ ~resp.raised
    /\ resp.status = 200
    /\ ~ParseRaises(resp.content)

\* The value of ok at line 69 for a day with response resp.
DayOk(resp, wanted) ==
    /\ ~resp.raised
    /\ resp.status = 200
    /\ ~ParseRaises(resp.content)
    /\ ParseTcmbXml(resp.content, wanted) # <<>>

\* DayRows without the status test of line 61.
DayRowsAnyStatus(d, resp, wanted) ==
    IF ~resp.raised /\ ~ParseRaises(resp.content)
    THEN LET parsed == ParseTcmbXml(resp.content, wanted)
         IN [k \in 1..Len(parsed) |->
                [date |-> d, code |-> parsed[k].code, vals |-> parsed[k].vals]]
    ELSE <<>>

\* The records lines 64-65 append for day d.
DayRows(d, resp, wanted) ==
    IF ~resp.raised /\ resp.status = 200 /\ ~ParseRaises(resp.content)
    THEN LET parsed == ParseTcmbXml(resp.content, wanted)
         IN [k \in 1..Len(parsed) |->
                [date |-> d, code |-> parsed[k].code, vals |-> parsed[k].vals]]
    ELSE <<>>

\* Progressed with the callback skipped on a failed day (a "continue" in the
\* except branch).
ProgressedOnSuccessOnly(calls, d, ok) ==
    IF ok THEN Append(calls, [d |-> d, ok |-> ok]) ELSE calls

\* if on_progress: on_progress(d, ok) -- the calls made so far, in order.
Progressed(calls, d, ok) == Append(calls, [d |-> d, ok |-> ok])

\* pct = int(done_days / max(self.total_days, 1) * 100), done_days = (d - start).days + 1
\* (exact for the day counts used here: the float product is not a rounding case).
Pct(d, start, total) ==
    (((d - start) + 1) * 100) \div (IF total > 1 THEN total ELSE 1)

\* ------------------------------------------------- calendar (dt.date, pd.Timestamp)
\* Ordinal 0 is 2024-01-01, a Monday (weekday 0, as date.weekday()).
Epoch == [year |-> 2024, weekday |-> 0]
Years == Epoch.year .. (Epoch.year + 2)

IsLeap(y) == (y % 4 = 0 /\ y % 100 # 0) \/ y % 400 = 0

DaysInMonth(y, m) ==
    IF m = 2 THEN (IF IsLeap(y) THEN 29 ELSE 28)
    ELSE IF m \in {4, 6, 9, 11} THEN 30 ELSE 31

DaysInYear(y) == IF IsLeap(y) THEN 366 ELSE 365

RECURSIVE DaysBeforeYear(_)
DaysBeforeYear(y) ==
    IF y <= Epoch.year THEN 0 ELSE DaysBeforeYear(y - 1) + DaysInYear(y - 1)

RECURSIVE DaysBeforeMonth(_, _)
DaysBeforeMonth(y, m) ==
    IF m <= 1 THEN 0 ELSE DaysBeforeMonth(y, m - 1) + DaysInMonth(y, m - 1)

\* dt.date(y, m, day) as an ordinal.
Date(y, m, day) == DaysBeforeYear(y) + DaysBeforeMonth(y, m) + (day - 1)

\* The (year, month) of every ordinal of Years, computed once.
Calendar ==
    [n \in 0..(DaysBeforeYear(Epoch.year + 3) - 1) |->
        LET y == CHOOSE y \in Years :
                     DaysBeforeYear(y) <= n /\ n < DaysBeforeYear(y) + DaysInYear(y)
            m == CHOOSE m \in 1..12 :
                     Date(y, m, 1) <= n /\ n < Date(y, m, 1) + DaysInMonth(y, m)
        IN [year |-> y, month |-> m]]

YearOf(n) == Calendar[n].year
MonthOf(n) == Calendar[n].month
Weekday(n) == (n + Epoch.weekday) % 7

\* ------------------------------------------------------------ DataFrame
\* A table is the sequence of its rows, in index order; a row is
\* [date, vals] with vals a function from the columns to Float/NaN.
EmptyDf == <<>>

Index(df) == {df[k].date : k \in 1..Len(df)}
Columns(df) == IF df = <<>> THEN {} ELSE DOMAIN df[1].vals

\* DataFrame.empty: an axis of length 0.
DfEmpty(df) == Len(df) = 0 \/ Columns(df) = {}

\* sorted(S), for a set of dates.
SortedDates(S) ==
    IF S = {} THEN <<>>
    ELSE LET lo == CHOOSE x \in S : \A y \in S : x <= y
             hi == CHOOSE x \in S : \A y \in S : x >= y
         IN SelectSeq([i \in 1..((hi - lo) + 1) |-> (lo + i) - 1], LAMBDA n : n \in S)

\* sort_index() of a table (rows of one date keep their relative order).
RECURSIVE SortIndex(_)
SortIndex(df) ==
    IF df = <<>> THEN <<>>
    ELSE LET lo == CHOOSE k \in 1..Len(df) :
                       \A j \in 1..Len(df) :
                           df[k].date < df[j].date \/ (df[k].date = df[j].date /\ k <= j)
         IN <<df[lo]>> \o SortIndex(SubSeq(df, 1, lo - 1) \o SubSeq(df, lo + 1, Len(df)))

\* pivot_table(index="date", columns="code", values=FIELDS), then
\* swaplevel/sort_index on the columns: a (date, code) record with no
\* number at all is dropped, and so is a column with no number at all.
RowsWithData(rows) ==
    {k \in 1..Len(rows) : \E f \in 1..4 : rows[k].vals[f] # NaN}

Pivot(rows) ==
    LET live == RowsWithData(rows)
        dates == SortedDates({rows[k].date : k \in live})
        cols == {<<rows[k].code, f>> : k \in live, f \in 1..4} \cap
                {c \in {rows[k].code : k \in live} \X (1..4) :
                    \E k \in live : rows[k].code = c[1] /\ rows[k].vals[c[2]] # NaN}
        cell(d, c) ==
            IF \E k \in live : rows[k].date = d /\ rows[k].code = c[1]
            THEN rows[CHOOSE k \in live : rows[k].date = d /\ rows[k].code = c[1]].vals[c[2]]
            ELSE NaN
    IN [i \in 1..Len(dates) |->
           [date |-> dates[i], vals |-> [c \in cols |-> cell(dates[i], c)]]]

\* What fetch_range returns for the records collected (lines 72-79).
FetchRangeResult(rows) == IF rows = <<>> THEN EmptyDf ELSE Pivot(rows)

\* ------------------------------------------------------ apply_frequency
\* FREQUENCIES, in ASCII: Günlük, İşgünü, Haftalık, Aylık, 3 Aylık, 6 Aylık,
\* Yıllık, Ayda 2 Kez.
FREQUENCIES ==
    <<"Gunluk", "Isgunu", "Haftalik", "Aylik", "3 Aylik", "6 Aylik", "Yillik", "Ayda 2 Kez">>
FrequencyKeys == {FREQUENCIES[k] : k \in 1..Len(FREQUENCIES)}

\* freq_map.get(freq_key)
FreqMap(freq_key) ==
    CASE freq_key = "Gunluk" -> "None"
      [] freq_key = "Isgunu" -> "B"
      [] freq_key = "Haftalik" -> "W-FRI"
      [] freq_key = "Aylik" -> "M"
      [] freq_key = "3 Aylik" -> "Q"
      [] freq_key = "6 Aylik" -> "2Q"
      [] freq_key = "Yillik" -> "A"
      [] OTHER -> "None"

\* The last value of column c that is not NaN among rows 1..k.
RECURSIVE LastValid(_, _, _)
LastValid(df, k, c) ==
    IF k = 0 THEN NaN
    ELSE IF df[k].vals[c] # NaN THEN df[k].vals[c]
    ELSE LastValid(df, k - 1, c)

\* Ffill that carries a value over one row only (ffill(limit=1)).
FfillLimitOne(df) ==
    [k \in 1..Len(df) |->
        [date |-> df[k].date,
         vals |-> [c \in Columns(df) |->
                      IF df[k].vals[c] # NaN \/ k = 1 THEN df[k].vals[c]
                      ELSE df[k - 1].vals[c]]]]

\* DataFrame.ffill()
Ffill(df) ==
    [k \in 1..Len(df) |->
        [date |-> df[k].date, vals |-> [c \in Columns(df) |-> LastValid(df, k, c)]]]

\* Quarters are counted from the epoch year; a quarter ends with its third month.
QuarterOf(n) == (YearOf(n) - Epoch.year) * 4 + ((MonthOf(n) - 1) \div 3)
QuarterEnd(q) ==
    LET y == Epoch.year + (q \div 4)
        m == 3 * (q % 4) + 3
    IN Date(y, m, DaysInMonth(y, m))

\* The label of the bin that resample(code) puts date n in, for a table whose
\* first date is first. B bins are closed and labelled on the left (a weekend
\* falls in Friday's bin); the others are closed and labelled on the right
\* (the period's last day). The 2Q bins are pairs of quarters, the first pair
\* ending with the quarter of the table's first date.
BinLabel(code, n, first) ==
    CASE code = "B" -> IF Weekday(n) < 5 THEN n ELSE n - (Weekday(n) - 4)
      [] code = "W-FRI" -> n + ((11 - Weekday(n)) % 7)
      [] code = "M" -> Date(YearOf(n), MonthOf(n), DaysInMonth(YearOf(n), MonthOf(n)))
      [] code = "Q" -> QuarterEnd(QuarterOf(n))
      [] code = "2Q" ->
            QuarterEnd(QuarterOf(first) + 2 * (((QuarterOf(n) - QuarterOf(first)) + 1) \div 2))
      [] code = "A" -> Date(YearOf(n), 12, 31)

\* Months are counted from the epoch year, like the quarters.
MonthIndex(n) == (YearOf(n) - Epoch.year) * 12 + (MonthOf(n) - 1)
MonthEnd(i) ==
    LET y == Epoch.year + (i \div 12)
        m == (i % 12) + 1
    IN Date(y, m, DaysInMonth(y, m))

\* date_range(lo, hi, freq=code) for two labels lo <= hi.
LabelRange(code, lo, hi) ==
    CASE code = "B" -> {n \in lo..hi : Weekday(n) < 5}
      [] code = "W-FRI" -> {lo + 7 * k : k \in 0..((hi - lo) \div 7)}
      [] code = "M" -> {MonthEnd(i) : i \in MonthIndex(lo)..MonthIndex(hi)}
      [] code = "Q" -> {QuarterEnd(q) : q \in QuarterOf(lo)..QuarterOf(hi)}
      [] code = "2Q" ->
            {QuarterEnd(QuarterOf(lo) + 2 * k) : k \in 0..((QuarterOf(hi) - QuarterOf(lo)) \div 2)}
      [] code = "A" -> {Date(y, 12, 31) : y \in YearOf(lo)..YearOf(hi)}

\* The bins of resample(code): every bin from the first row's to the last
\* row's, those without a row included.
BinLabels(code, df) ==
    LET first == df[1].date
        last == df[Len(df)].date
    IN SortedDates(LabelRange(code, BinLabel(code, first, first), BinLabel(code, last, first)))

\* Resampler.last(): per column, the last value of the bin that is not NaN.
RECURSIVE LastInBin(_, _, _, _, _)
LastInBin(df, code, label, c, k) ==
    IF k = 0 THEN NaN
    ELSE IF BinLabel(code, df[k].date, df[1].date) = label /\ df[k].vals[c] # NaN
         THEN df[k].vals[c]
         ELSE LastInBin(df, code, label, c, k - 1)

\* One row per bin label, in the order of labels.
BinRows(df, code, labels) ==
    [i \in 1..Len(labels) |->
        [date |-> labels[i],
         vals |-> [c \in Columns(df) |-> LastInBin(df, code, labels[i], c, Len(df))]]]

\* df.resample(code).last()
ResampleLast(df, code) == BinRows(df, code, BinLabels(code, df))

\* months = sorted({(d.year, d.month) for d in df.index}), and per month the
\* anchors dt.date(y, m, 1) and dt.date(y, m, 15), in the order of the loops.
Anchors(df) ==
    SortedDates(UNION {{Date(YearOf(n), MonthOf(n), 1), Date(YearOf(n), MonthOf(n), 15)} :
                       n \in Index(df)})

\* AnchorRows with the two fallbacks in the other order: the latest row
\* before the anchor first.
AnchorRowsBackwardFirst(df, t) ==
    IF t \in Index(df)
    THEN SelectSeq(df, LAMBDA r : r.date = t)
    ELSE LET fwd == SelectSeq(df, LAMBDA r : r.date >= t)
             bak == SelectSeq(df, LAMBDA r : r.date <= t)
         IN IF bak # <<>> THEN <<bak[Len(bak)]>>
            ELSE IF fwd # <<>> THEN <<fwd[1]>>
            ELSE <<>>

\* What lines 108-116 append to out for anchor t.
AnchorRows(df, t) ==
    IF t \in Index(df)
    THEN SelectSeq(df, LAMBDA r : r.date = t)
    ELSE LET fwd == SelectSeq(df, LAMBDA r : r.date >= t)
             bak == SelectSeq(df, LAMBDA r : r.date <= t)
         IN IF fwd # <<>> THEN <<fwd[1]>>
            ELSE IF bak # <<>> THEN <<bak[Len(bak)]>>
            ELSE <<>>

RECURSIVE ConcatAnchors(_, _)
ConcatAnchors(df, anchors) ==
    IF anchors = <<>> THEN <<>>
    ELSE AnchorRows(df, Head(anchors)) \o ConcatAnchors(df, Tail(anchors))

TwiceMonthly(df) ==
    LET out == ConcatAnchors(df, Anchors(df))
    IN IF out # <<>> THEN SortIndex(out) ELSE df

ApplyFrequency(df, freq_key) ==
    IF DfEmpty(df) THEN df
    ELSE LET filled == Ffill(SortIndex(df))
         IN IF freq_key = "Ayda 2 Kez" THEN TwiceMonthly(filled)
            ELSE IF FreqMap(freq_key) = "None" THEN filled
            ELSE ResampleLast(filled, FreqMap(freq_key))

\* ------------------------------------------------------------- App state
Dates == 0..MaxDate
ThreadIds == 1..MaxThreads

\* The currency lists _start_job can build from the ticked checkboxes
\* (none ticked, or USD alone).
CodeLists == {<<>>, <<"USD">>}
Folders == {"", "out"}

NoThread ==
    [pc |-> "idle", start |-> 0, end |-> 0, codes |-> <<>>, i |-> 0, rows |-> <<>>,
     calls |-> <<>>, met |-> Met([raised |-> FALSE, status |-> 0, content |-> Body(<<>>)], {}),
     outcome |-> "none", resampled |-> FALSE, exported |-> FALSE]

Txt(kind, d, ok) == [kind |-> kind, d |-> d, ok |-> ok]

\* A thread is alive from Thread.start() until _run_job returns.
Alive(t) == threads[t].pc = "fetch"
FreeSlots == {t \in ThreadIds : ~Alive(t)}

\* ------------------------------------------------- frequency checkboxes
\* The "frequency" entry of the settings file: no file, a key of FREQUENCIES,
\* or a key the program does not know.
NoFile == "<no settings file>"
SettingsFrequencies == {NoFile, "Saatlik"} \cup FrequencyKeys

\* var_freq as __init__ builds it (line 183): Gunluk alone is ticked.
DefaultVarFreq == [f \in FrequencyKeys |-> f = "Gunluk"]

\* _set_all_freq(state): every variable is set to state, then Gunluk is
\* ticked when state is False (lines 337-341).
AllFreqSet(state) == [f \in FrequencyKeys |-> state \/ f = "Gunluk"]

\* active = [f for f, v in var_freq.items() if v.get()], in dict order.
Active(v) == SelectSeq(FREQUENCIES, LAMBDA f : v[f])

\* _ensure_single_freq (lines 343-348): with more than one ticked, the first
\* in FREQUENCIES order is kept; with one or none, nothing is done.
EnsureSingleFreq(v) ==
    IF Len(Active(v)) > 1
    THEN [f \in FrequencyKeys |-> f = Active(v)[1]]
    ELSE v

\* _get_selected_frequency (lines 355-359): the first ticked key, Gunluk
\* when none is.
GetSelectedFrequency(v) ==
    IF Len(Active(v)) > 0 THEN Active(v)[1] ELSE "Gunluk"

\* _load_from_file (lines 373-388): nothing without a file; else
\* _set_all_freq(False), then the saved key is ticked if it is known.
LoadFromFile(s) ==
    IF s = NoFile THEN DefaultVarFreq
    ELSE IF s \in FrequencyKeys THEN [AllFreqSet(FALSE) EXCEPT ![s] = TRUE]
    ELSE AllFreqSet(FALSE)

\* The checkboxes of an interface started without a settings file.
IdleUi ==
    /\ var_freq = DefaultVarFreq
    /\ settings = NoFile

\* App.__init__ (lines 188-190); no table has been resampled.
Init ==
    /\ IdleUi
    /\ total_days = 0
    /\ progress_txt = Txt("Hazir.", 0, FALSE)
    /\ pb_value = 0
    /\ after_queue = <<>>
    /\ threads = [t \in ThreadIds |-> NoThread]
    /\ df_in = EmptyDf
    /\ freq_in = ""
    /\ df_out = EmptyDf

\* App._start_job, the button's handler: the pickers' dates, the ticked codes,
\* the answer to the "all currencies?" dialog and the folder are its inputs.
StartJob(start, end, codes, yes, folder) ==
    /\ FreeSlots # {}
    /\ IF end < start \/ (codes = <<>> /\ ~yes) \/ folder = ""
       THEN UNCHANGED vars
       ELSE LET t == CHOOSE x \in FreeSlots : \A y \in FreeSlots : x <= y
            IN /\ total_days' = Days(start, end)
               /\ pb_value' = 0
               /\ progress_txt' = Txt("Basladi...", 0, FALSE)
               /\ threads' = [threads EXCEPT ![t] =
                     [NoThread EXCEPT !.pc = "fetch", !.start = start, !.end = end,
                                      !.codes = codes]]
               /\ UNCHANGED <<after_queue, freqVars, uiVars>>

\* One iteration of fetch_range's loop in thread t (lines 55-71), with the
\* on_progress of _run_job (lines 415-419) that it calls.
FetchDay(t, resp) ==
    LET th == threads[t]
        d == th.start + th.i
        wanted == Wanted(th.codes)
        ok == DayOk(resp, wanted)
        calls == Progressed(th.calls, d, ok)
    IN /\ Alive(t)
       /\ th.i < Days(th.start, th.end)
       /\ Len(after_queue) < MaxAfter
       /\ threads' = [threads EXCEPT ![t].i = th.i + 1,
                                     ![t].rows = th.rows \o DayRows(d, resp, wanted),
                                     ![t].calls = calls,
                                     ![t].met = Met(resp, wanted)]
       /\ IF Len(calls) > Len(th.calls)
          THEN /\ after_queue' = Append(after_queue, Pct(d, th.start, total_days))
               /\ progress_txt' = Txt("day", d, ok)
          ELSE UNCHANGED <<after_queue, progress_txt>>
       /\ UNCHANGED <<total_days, pb_value, freqVars, uiVars>>

\* Tk's main loop runs a callback queued by pb.after(0, ...): pb.config(value=pct).
AfterCallback ==
    /\ after_queue # <<>>
    /\ pb_value' = Head(after_queue)
    /\ after_queue' = Tail(after_queue)
    /\ UNCHANGED <<total_days, progress_txt, threads, freqVars, uiVars>>

\* Thread t after _run_job has returned: its locals are gone; what stays is
\* what it was started with, the calls it made and how it ended.
Ended(th, outcome, resampled, exported) ==
    [th EXCEPT !.pc = "ended", !.rows = NoThread.rows, !.met = NoThread.met,
               !.outcome = outcome, !.resampled = resampled, !.exported = exported]

\* FinishJob without the "if df.empty: ... return" of lines 423-425.
FinishJobNoEmptyTest(t, io_ok) ==
    LET th == threads[t]
    IN /\ Alive(t)
       /\ th.i = Days(th.start, th.end)
       /\ IF io_ok
          THEN /\ progress_txt' = Txt("Bitti.", 0, FALSE)
               /\ threads' = [threads EXCEPT ![t] = Ended(th, "done", TRUE, TRUE)]
          ELSE /\ progress_txt' = Txt("Hata", 0, FALSE)
               /\ threads' = [threads EXCEPT ![t] = Ended(th, "error", TRUE, FALSE)]
       /\ UNCHANGED <<total_days, pb_value, after_queue, freqVars, uiVars>>

\* The rest of _run_job in thread t once the loop has ended (lines 72-79 and
\* 423-451). With a table, the thread resamples it to the ticked frequency
\* (see SpecFreq) and writes the file: io_ok is whether that write succeeds.
FinishJob(t, io_ok) ==
    LET th == threads[t]
        df == FetchRangeResult(th.rows)
    IN /\ Alive(t)
       /\ th.i = Days(th.start, th.end)
       /\ IF DfEmpty(df)
          THEN /\ progress_txt' = Txt("Veri bulunamadi.", 0, FALSE)
               /\ threads' = [threads EXCEPT ![t] = Ended(th, "nodata", FALSE, FALSE)]
          ELSE IF io_ok
               THEN /\ progress_txt' = Txt("Bitti.", 0, FALSE)
                    /\ threads' = [threads EXCEPT ![t] = Ended(th, "done", TRUE, TRUE)]
               ELSE /\ progress_txt' = Txt("Hata", 0, FALSE)
                    /\ threads' = [threads EXCEPT ![t] = Ended(th, "error", TRUE, FALSE)]
       /\ UNCHANGED <<total_days, pb_value, after_queue, freqVars, uiVars>>

\* The responses the threads of Spec meet: an exception, a 404, and the
\* documents with one currency (SpecFetch runs one job against them all).
AppResponses ==
    {r \in Responses :
        \/ r.raised
        \/ r.status = 404 /\ r.content = Body(<<>>)
        \/ r.status = 200 /\ r.content.wellformed /\ Len(r.content.entries) = 1
                          /\ r.content.entries[1].Kod # NoAttr}

Next ==
    \/ \E start \in Dates, end \in Dates, codes \in CodeLists, yes \in BOOLEAN, folder \in Folders :
          StartJob(start, end, codes, yes, folder)
    \/ \E t \in ThreadIds, resp \in AppResponses : FetchDay(t, resp)
    \/ AfterCallback
    \/ \E t \in ThreadIds, io_ok \in BOOLEAN : FinishJob(t, io_ok)

Spec == Init /\ [][Next]_vars

\* One job, from the state _start_job leaves (thread 1 started), against
\* every response.
InitFetch ==
    \E start \in 0..MaxSpan, end \in 0..MaxSpan, codes \in CodeLists :
        /\ end >= start
        /\ IdleUi
        /\ total_days = Days(start, end)
        /\ progress_txt = Txt("Basladi...", 0, FALSE)
        /\ pb_value = 0
        /\ after_queue = <<>>
        /\ threads = [t \in ThreadIds |->
              IF t = 1
              THEN [NoThread EXCEPT !.pc = "fetch", !.start = start, !.end = end,
                                    !.codes = codes]
              ELSE NoThread]
        /\ df_in = EmptyDf
        /\ freq_in = ""
        /\ df_out = EmptyDf

NextFetch ==
    \/ \E resp \in Responses : FetchDay(1, resp)
    \/ AfterCallback
    \/ \E io_ok \in BOOLEAN : FinishJob(1, io_ok)

SpecFetch == InitFetch /\ [][NextFetch]_vars

\* ------------------------------------------------- apply_frequency alone
\* The dates the tables are drawn from: 2024-09-30 (Mon), 2024-12-10 (Tue),
\* 2024-12-15 (Sun), 2024-12-20 (Fri), 2025-01-01 (Wed), 2025-02-05 (Wed),
\* 2025-02-20 (Thu).
TableDates ==
    {Date(2024, 9, 30), Date(2024, 12, 10), Date(2024, 12, 15), Date(2024, 12, 20),
     Date(2025, 1, 1), Date(2025, 2, 5), Date(2025, 2, 20)}

\* Two columns (code, field number); the quote of a column on a date is a
\* number of its own, so that a row is known by its values.
TableColumns == {<<"EUR", 1>>, <<"USD", 1>>}
Quote(n, c) == Float(IF c[1] = "USD" THEN n ELSE 1000 + n)

\* The table with the dates S whose cells P hold a number.
MakeTable(S, P) ==
    LET dates == SortedDates(S)
    IN [k \in 1..Len(dates) |->
           [date |-> dates[k],
            vals |-> [c \in TableColumns |->
                         IF <<dates[k], c>> \in P THEN Quote(dates[k], c) ELSE NaN]]]

\* The tables fetch_range can return with at most MaxRows rows: dates ascending
\* and unique, a number in every row and in every column (see Pivot).
Tables ==
    UNION {{MakeTable(S, P) :
               P \in {Q \in SUBSET (S \X TableColumns) :
                         /\ \A n \in S : \E c \in TableColumns : <<n, c>> \in Q
                         /\ \A c \in TableColumns : \E n \in S : <<n, c>> \in Q}} :
           S \in {T \in SUBSET TableDates : Cardinality(T) \in 1..MaxRows}}

InitFreq ==
    /\ IdleUi
    /\ total_days = 0
    /\ progress_txt = Txt("Hazir.", 0, FALSE)
    /\ pb_value = 0
    /\ after_queue = <<>>
    /\ threads = [t \in ThreadIds |-> NoThread]
    /\ df_in \in Tables
    /\ freq_in = ""
    /\ df_out = EmptyDf

\* df2 = apply_frequency(df, freq)
Resample(freq_key) ==
    /\ freq_in = ""
    /\ freq_in' = freq_key
    /\ df_out' = ApplyFrequency(df_in, freq_key)
    /\ UNCHANGED <<df_in, appVars, uiVars>>

NextFreq == \E freq_key \in FrequencyKeys : Resample(freq_key)

SpecFreq == InitFreq /\ [][NextFreq]_vars

\* --------------------------------------------- the frequency selector alone
\* App.__init__ with its _load_from_file (lines 183-193), for every settings
\* file; no job has been started.
InitUi ==
    /\ settings \in SettingsFrequencies
    /\ var_freq = LoadFromFile(settings)
    /\ total_days = 0
    /\ progress_txt = Txt("Hazir.", 0, FALSE)
    /\ pb_value = 0
    /\ after_queue = <<>>
    /\ threads = [t \in ThreadIds |-> NoThread]
    /\ df_in = EmptyDf
    /\ freq_in = ""
    /\ df_out = EmptyDf

\* A click on the checkbox of f (line 297): the Checkbutton flips its
\* variable, then runs its command, _ensure_single_freq.
ToggleFreq(f) ==
    /\ var_freq' = EnsureSingleFreq([var_freq EXCEPT ![f] = ~@])
    /\ UNCHANGED <<settings, appVars, freqVars>>

\* The buttons "Tumu" (state = TRUE) and "Hicbiri" (state = FALSE), lines
\* 301-302.
SetAllFreq(state) ==
    /\ var_freq' = AllFreqSet(state)
    /\ UNCHANGED <<settings, appVars, freqVars>>

\* _save_to_file (lines 361-370): "frequency" is _get_selected_frequency().
SaveToFile ==
    /\ settings' = GetSelectedFrequency(var_freq)
    /\ UNCHANGED <<var_freq, appVars, freqVars>>

FreqOperation ==
    \/ \E f \in FrequencyKeys : ToggleFreq(f)
    \/ \E state \in BOOLEAN : SetAllFreq(state)

NextUi ==
    \/ FreqOperation
    \/ SaveToFile

SpecUi == InitUi /\ [][NextUi]_vars

\* ---------------------------------------------------------------- claims
\* The records of thread t dated d, in the order they were appended.
RecordsOf(t, d) == SelectSeq(threads[t].rows, LAMBDA r : r.date = d)

\* C1: in one run of fetch_range, on_progress is called exactly once for every
\* date from start to end, in increasing date order, whatever the days'
\* outcomes: the k-th call is for start + (k - 1), one call has been made per
\* day enumerated so far, and a run that has ended has made Days(start, end) calls.
C1_ProgressOncePerDateInOrder ==
    \A t \in ThreadIds :
        LET th == threads[t]
        IN /\ Len(th.calls) = th.i
           /\ \A k \in 1..Len(th.calls) : th.calls[k].d = th.start + (k - 1)
           /\ th.pc = "ended" => Len(th.calls) = Days(th.start, th.end)

\* A 3-day run has ended after a failed first day and a successful second day.
C1_Witness ==
    /\ threads[1].pc = "ended"
    /\ Len(threads[1].calls) = 3
    /\ ~threads[1].calls[1].ok
    /\ threads[1].calls[2].ok

\* The state part of C2: a date reported with success has at least one record,
\* no two of them of one currency, and a date reported with failure, or not
\* reported, has none; the day just handled, if reported with success, has
\* one record for each wanted currency of its document and no other.
C2_RecordsMatchReports ==
    \A t \in ThreadIds :
        LET th == threads[t]
        IN Alive(t) =>
            /\ \A k \in 1..Len(th.calls) :
                  LET recs == RecordsOf(t, th.calls[k].d)
                  IN IF th.calls[k].ok
                     THEN /\ recs # <<>>
                          /\ \A a, b \in 1..Len(recs) : recs[a].code = recs[b].code => a = b
                     ELSE recs = <<>>
            /\ \A k \in 1..Len(th.rows) :
                  \E j \in 1..Len(th.calls) : th.calls[j].d = th.rows[k].date
            /\ (th.calls # <<>> /\ th.calls[Len(th.calls)].ok) =>
                  {r.code : r \in {RecordsOf(t, th.calls[Len(th.calls)].d)[a] :
                                      a \in 1..Len(RecordsOf(t, th.calls[Len(th.calls)].d))}}
                      = th.met.matching

\* The step part of C2: while the loop runs, a day, failed or not, keeps every
\* record collected before it, and the thread goes on to the next day.
C2_DayKeepsRecords ==
    \A t \in ThreadIds :
        (Alive(t) /\ threads'[t].pc = "fetch" /\ threads'[t] # threads[t]) =>
            /\ threads'[t].i = threads[t].i + 1
            /\ Len(threads'[t].rows) >= Len(threads[t].rows)
            /\ SubSeq(threads'[t].rows, 1, Len(threads[t].rows)) = threads[t].rows

\* C2: a per-day failure neither aborts the run nor discards records of other
\* days: when the loop ends, the records are one per extracted currency for
\* every date reported with success, and none for a date reported with failure.
C2_FailuresKeepOtherDays == [](C2_RecordsMatchReports) /\ [][C2_DayKeepsRecords]_vars

\* The loop of a 3-day run has ended: the first day gave two records, the
\* second failed, the third gave one.
C2_Witness ==
    /\ Alive(1)
    /\ threads[1].i = 3 /\ Days(threads[1].start, threads[1].end) = 3
    /\ threads[1].calls[1].ok /\ ~threads[1].calls[2].ok /\ threads[1].calls[3].ok
    /\ Len(RecordsOf(1, threads[1].start)) = 2
    /\ Len(threads[1].rows) = 3

\* C3: a date is reported with success exactly when its request did not raise,
\* the status was 200, the body parsed and held at least one wanted currency.
C3_SuccessIffCurrencies ==
    \A t \in ThreadIds :
        LET th == threads[t]
        IN (Alive(t) /\ th.calls # <<>>) =>
            (th.calls[Len(th.calls)].ok <=>
                (/\ ~th.met.raised
                 /\ th.met.status = 200
                 /\ th.met.wellformed
                 /\ th.met.matching # {}))

\* A day whose document arrived with status 200 and parsed, but held no wanted
\* currency, has been reported with failure.
C3_Witness ==
    /\ Alive(1) /\ threads[1].calls # <<>>
    /\ ~threads[1].met.raised /\ threads[1].met.status = 200 /\ threads[1].met.wellformed
    /\ threads[1].met.matching = {}
    /\ ~threads[1].calls[Len(threads[1].calls)].ok

\* C4: when no date of the range yields a record, fetch_range returns the empty
\* table and the job ends in the no-data outcome, having neither resampled nor
\* exported, and not in the error outcome.
C4_NoDataOutcome ==
    \A t \in ThreadIds :
        LET th == threads[t]
        IN /\ (Alive(t) /\ th.rows = <<>>) => FetchRangeResult(th.rows) = EmptyDf
           /\ (th.pc = "ended" /\ \A k \in 1..Len(th.calls) : ~th.calls[k].ok) =>
                 /\ th.outcome = "nodata"
                 /\ ~th.resampled
                 /\ ~th.exported
           /\ (t = 1 /\ th.pc = "ended" /\ th.outcome = "nodata") =>
                 progress_txt.kind = "Veri bulunamadi."

\* A 3-day run without a single record has ended with the no-data message.
C4_Witness ==
    /\ threads[1].pc = "ended"
    /\ Len(threads[1].calls) = 3
    /\ \A k \in 1..3 : ~threads[1].calls[k].ok
    /\ threads[1].outcome = "nodata"
    /\ progress_txt.kind = "Veri bulunamadi."

\* The gap-filled table: a cell holds the value of the latest row up to its
\* own in which the column has a number, NaN when there is none.
GapFilled(df) ==
    [k \in 1..Len(df) |->
        [date |-> df[k].date,
         vals |-> [c \in Columns(df) |->
                      LET js == {j \in 1..k : df[j].vals[c] # NaN}
                      IN IF js = {} THEN NaN
                         ELSE df[CHOOSE j \in js : \A i \in js : i <= j].vals[c]]]]

\* The 1st and the 15th of every (year, month) that has a row.
AnchorDates(df) ==
    {Date(YearOf(n), MonthOf(n), day) : n \in Index(df), day \in {1, 15}}

\* The date of the row chosen for anchor a: a itself, else the earliest date
\* after a, else the latest date before a.
ChosenDate(df, a) ==
    IF a \in Index(df) THEN a
    ELSE IF \E n \in Index(df) : n > a
         THEN CHOOSE n \in Index(df) : n > a /\ \A x \in Index(df) : x > a => n <= x
         ELSE CHOOSE n \in Index(df) : n < a /\ \A x \in Index(df) : x < a => x <= n

\* C5: for 'Ayda 2 Kez' the output holds, for each anchor, the row chosen for
\* it (one output row per anchor, so a row chosen for two anchors is there
\* twice), every output row is a row of the gap-filled input, and the output is
\* in ascending date order.
C5_TwiceMonthlySelection ==
    freq_in = "Ayda 2 Kez" =>
        LET G == GapFilled(df_in)
            A == AnchorDates(df_in)
        IN /\ Len(df_out) = Cardinality(A)
           /\ \A k \in 1..Len(df_out) : \E j \in 1..Len(G) : df_out[k] = G[j]
           /\ \A j \in 1..Len(G) :
                 Cardinality({k \in 1..Len(df_out) : df_out[k].date = G[j].date})
                     = Cardinality({a \in A : ChosenDate(df_in, a) = G[j].date})
           /\ \A k \in 1..(Len(df_out) - 1) : df_out[k].date <= df_out[k + 1].date

\* 'Ayda 2 Kez' has been applied to a table with an anchor that has its own
\* row, an anchor served by a later row and an anchor served by an earlier row,
\* and a filled cell among the output rows.
C5_Witness ==
    /\ freq_in = "Ayda 2 Kez"
    /\ \E a \in AnchorDates(df_in) : a \in Index(df_in)
    /\ \E a \in AnchorDates(df_in) : a \notin Index(df_in) /\ ChosenDate(df_in, a) > a
    /\ \E a \in AnchorDates(df_in) : ChosenDate(df_in, a) < a
    /\ \E k \in 1..Len(df_out) : \A j \in 1..Len(df_in) : df_out[k] # df_in[j]

\* C6: the output of 'Ayda 2 Kez' has at most two rows dated in any one
\* (year, month).
C6_AtMostTwoRowsPerMonth ==
    freq_in = "Ayda 2 Kez" =>
        \A k \in 1..Len(df_out) :
            Cardinality({j \in 1..Len(df_out) :
                            /\ YearOf(df_out[j].date) = YearOf(df_out[k].date)
                            /\ MonthOf(df_out[j].date) = MonthOf(df_out[k].date)}) <= 2

\* C7 as claimed: 'Günlük' returns the input table, cell for cell.
C7_DailyIsIdentity == freq_in = "Gunluk" => df_out = df_in

\* A NaN cell below a number of its column: a cell gap filling changes.
Fillable(df) ==
    \E k \in 1..Len(df), c \in Columns(df) :
        df[k].vals[c] = NaN /\ \E j \in 1..(k - 1) : df[j].vals[c] # NaN

\* C7, amended: 'Günlük' returns the gap-filled table, with the input's row
\* dates; it is the input itself exactly when no NaN cell has a number above it.
C7_DailyIsGapFilled ==
    freq_in = "Gunluk" =>
        /\ df_out = GapFilled(df_in)
        /\ [k \in 1..Len(df_out) |-> df_out[k].date] = [k \in 1..Len(df_in) |-> df_in[k].date]
        /\ (df_out = df_in <=> ~Fillable(df_in))

\* 'Günlük' has been applied to a table with a NaN cell two rows below the last
\* number of its column, and the output differs from the input.
C7_Witness ==
    /\ freq_in = "Gunluk"
    /\ df_out # df_in
    /\ \E k \in 3..Len(df_in), c \in Columns(df_in) :
          /\ df_in[k].vals[c] = NaN /\ df_in[k - 1].vals[c] = NaN
          /\ df_in[k - 2].vals[c] # NaN

\* The frequencies that resample.
Periodic == {"Isgunu", "Haftalik", "Aylik", "3 Aylik", "6 Aylik", "Yillik"}

\* The period buckets that hold a row of df.
Buckets(df, freq_key) ==
    {BinLabel(FreqMap(freq_key), n, df[1].date) : n \in Index(df)}

\* C8: a periodic frequency outputs one row for every bucket that holds an
\* input row and no other row, with the values of the bucket's latest
\* gap-filled row.
C8_OneRowPerNonEmptyBucket ==
    freq_in \in Periodic =>
        LET G == GapFilled(df_in)
            B == Buckets(df_in, freq_in)
        IN /\ Len(df_out) = Cardinality(B)
           /\ {df_out[k].date : k \in 1..Len(df_out)} = B
           /\ \A k \in 1..Len(df_out) :
                 \A j \in 1..Len(G) :
                     (/\ BinLabel(FreqMap(freq_in), G[j].date, G[1].date) = df_out[k].date
                      /\ \A i \in (j + 1)..Len(G) :
                            BinLabel(FreqMap(freq_in), G[i].date, G[1].date) # df_out[k].date)
                     => df_out[k].vals = G[j].vals

\* C9: for every frequency but 'Ayda 2 Kez' the output has no more rows than
\* the input.
C9_NoMoreRowsThanInput ==
    (freq_in # "" /\ freq_in # "Ayda 2 Kez") => Len(df_out) <= Len(df_in)

\* C10: at most one _run_job thread is alive at a time, so that total_days,
\* the progress bar and progress_txt are written by one job only.
C10_AtMostOneJobActive == Cardinality({t \in ThreadIds : Alive(t)}) <= 1

\* C11: after every frequency operation of the interface (a click on a
\* frequency checkbox, "Tumu", "Hicbiri") exactly one frequency is ticked, and
\* _get_selected_frequency returns it.
Ticked(v) == {f \in FrequencyKeys : v[f]}
C11_ExactlyOneSelected ==
    [][FreqOperation =>
          /\ Cardinality(Ticked(var_freq')) = 1
          /\ GetSelectedFrequency(var_freq') \in Ticked(var_freq')]_vars

====
